---- MODULE Spec2Model ----
(***************************************************************************)
(* Model of the analytics ingestion core of the auction API:               *)
(* AnalyticsService (src/src/analytics/analytics.service.ts) on top of     *)
(* AnalyticsRepository (src/unnamed/part_005).                             *)
(*                                                                         *)
(* Time is in milliseconds since the epoch, as Date.now() returns it; the  *)
(* clock moves through the instants of Instants.  Every async method is    *)
(* split at its await points: a store request is first executed by the     *)
(* store, then the continuation of the method runs, and the steps of       *)
(* different requests interleave freely, as they do on the event loop.     *)
(***************************************************************************)
EXTENDS Integers, Sequences, FiniteSets, TLC

(* the defaults the constructor falls back on when the environment sets no
   ANALYTICS_* value, analytics.service.ts:30-36 *)
DefaultConfig ==
    [ RATE_LIMIT_WINDOW   |-> 60000,
      IMPRESSION_COOLDOWN |-> 30000,
      CLICK_COOLDOWN      |-> 5000,
      CLEANUP_INTERVAL    |-> 300000,
      DATA_RETENTION_DAYS |-> 90 ]

(* bounds of the model *)
MaxCalls == 2
MaxBatch == 2
MaxFailures == 1

(* request slots: the requests that can be in flight together *)
Procs == {1, 2}

(* the instants the clock visits *)
Instants == {0, 10000, 31000, 61000}

(* (session_id, item_id) pairs the callers use *)
Pairs == { <<"a", "c">>, <<"a", "b_c">> }

(* client-supplied timestamp strings; "" is a request without one, and
   "not-a-date" is no date *)
TimestampStrings == { "", "1969-12-31T23:58:20.000Z", "not-a-date" }

(* the time value of an Invalid Date: NaN.  It stands outside the times of the
   model *)
InvalidDate == 0 - 2147483647

(* new Date(string).getTime() *)
DateParse(s) ==
    CASE s = "1969-12-31T23:58:20.000Z" -> 0 - 100000
      [] s = "not-a-date" -> InvalidDate
      [] OTHER -> 0

(* the dtos of the callers: each pair without a timestamp, and the first pair
   with each of the timestamps *)
Dtos == { d \in { [session_id |-> pr[1], item_id |-> pr[2], timestamp |-> ts] :
                    pr \in Pairs, ts \in TimestampStrings } :
            d.timestamp # "" => d.item_id = "c" }

(* the dtos impression batches are made of: both pairs, no timestamp *)
BatchDtos == { d \in Dtos : d.timestamp = "" }

(* the dtos of the click calls, single and batch: the first pair, no
   timestamp.  trackClick and trackClicksBatch are trackImpression and
   trackImpressionsBatch with the other map, collection and cooldown *)
ClickDtos == { d \in BatchDtos : d.item_id = "c" }

RECURSIVE SeqsUpTo(_, _)
SeqsUpTo(S, n) ==
    IF n = 0 THEN { <<>> }
    ELSE LET shorter == SeqsUpTo(S, n - 1)
         IN  shorter \cup { Append(s, e) : s \in { t \in shorter : Len(t) = n - 1 }, e \in S }

Batches == SeqsUpTo(BatchDtos, MaxBatch)

ClickBatches == SeqsUpTo(ClickDtos, MaxBatch)

VARIABLES
    config,           \* this.config, read from the ConfigService by the constructor
    clock,            \* Date.now()
    impressionCache,  \* Map<string, number>: cache key -> `now` of the last acceptance
    clickCache,
    impressions,      \* collection impression_events
    clicks,           \* collection click_events
    pc,               \* per request slot: position in the running method
    op,               \* per request slot: the method running
    input,            \* its argument, a sequence of dtos
    now,              \* its local `now`
    data,             \* its local impressionData / validImpressions
    result,           \* what it returned or threw
    rivals,           \* history: what calls overlapping this one have persisted meanwhile
    calls,            \* number of calls started
    failures          \* number of store failures injected

vars == << config, clock, impressionCache, clickCache, impressions, clicks,
           pc, op, input, now, data, result, rivals, calls, failures >>

(* this.config.X, as the methods read it *)
RATE_LIMIT_WINDOW == config.RATE_LIMIT_WINDOW
IMPRESSION_COOLDOWN == config.IMPRESSION_COOLDOWN
CLICK_COOLDOWN == config.CLICK_COOLDOWN
CLEANUP_INTERVAL == config.CLEANUP_INTERVAL
DATA_RETENTION_DAYS == config.DATA_RETENTION_DAYS

NoResult == [status |-> "pending", value |-> <<>>]

(* `${session_id}_${item_id}` *)
CacheKey(dto) == dto.session_id \o "_" \o dto.item_id

KindOf(o) == IF o \in {"trackImpression", "trackImpressionsBatch"} THEN "impression" ELSE "click"

IsSingle(o) == o \in {"trackImpression", "trackClick"}

IsBatch(o) == o \in {"trackImpressionsBatch", "trackClicksBatch"}

Cooldown(kind) == IF kind = "impression" THEN IMPRESSION_COOLDOWN ELSE CLICK_COOLDOWN

CacheOf(kind) == IF kind = "impression" THEN impressionCache ELSE clickCache

StoreOf(kind) == IF kind = "impression" THEN impressions ELSE clicks

InFlight == { q \in Procs : pc[q] \notin {"idle", "done"} }

(* a finished method hands its outcome to its caller before anything else runs *)
Settled == \A q \in Procs : pc[q] # "done"

Init ==
    /\ config = DefaultConfig
    /\ clock = 0
    /\ impressionCache = << >>
    /\ clickCache = << >>
    /\ impressions = {}
    /\ clicks = {}
    /\ pc = [p \in Procs |-> "idle"]
    /\ op = [p \in Procs |-> "none"]
    /\ input = [p \in Procs |-> <<>>]
    /\ now = [p \in Procs |-> 0]
    /\ data = [p \in Procs |-> <<>>]
    /\ result = [p \in Procs |-> NoResult]
    /\ rivals = [p \in Procs |-> {}]
    /\ calls = 0
    /\ failures = 0

(* time passes.  The instants of the model are seconds apart and a store round
   trip takes milliseconds: the clock moves on between requests, and a request
   is served within the instant it arrived in *)
Tick ==
    /\ Settled
    /\ InFlight = {}
    /\ \E t \in Instants : t > clock /\ clock' = t
    /\ UNCHANGED << config, impressionCache, clickCache, impressions, clicks,
                    pc, op, input, now, data, result, rivals, calls, failures >>

(* a request arrives and takes the first free slot: its arguments, its
   `now = Date.now()` *)
Begin(p, o, dtos) ==
    /\ Settled
    /\ pc[p] = "idle"
    /\ \A q \in Procs : q < p => pc[q] # "idle"
    /\ calls < MaxCalls
    /\ op' = [op EXCEPT ![p] = o]
    /\ input' = [input EXCEPT ![p] = dtos]
    /\ now' = [now EXCEPT ![p] = clock]
    /\ calls' = calls + 1
    /\ UNCHANGED rivals

(* the method of slot p ends with outcome r *)
Finish(p, r) ==
    /\ pc' = [pc EXCEPT ![p] = "done"]
    /\ result' = [result EXCEPT ![p] = r]
    /\ data' = [data EXCEPT ![p] = <<>>]

(* mutant: the comparison is turned round *)
TooRecent_Reversed(cache, key, t, cooldown) ==
    /\ key \in DOMAIN cache
    /\ t - cache[key] > cooldown

(* the Hot Cache check: has(cacheKey) and now - last < cooldown *)
TooRecent(cache, key, t, cooldown) ==
    /\ key \in DOMAIN cache
    /\ t - cache[key] < cooldown

(* mutant: $gt in place of $gte *)
Matches_After(store, sessionId, itemId, startTime) ==
    { e \in store : /\ e.session_id = sessionId
                    /\ e.item_id = itemId
                    /\ e.timestamp > startTime }

(* the filter { session_id, item_id, timestamp: { $gte: startTime } } *)
Matches(store, sessionId, itemId, startTime) ==
    { e \in store : /\ e.session_id = sessionId
                    /\ e.item_id = itemId
                    /\ e.timestamp >= startTime }

(* mutant: the supplied timestamp is not used *)
EventData_AlwaysNow(dto, t) ==
    [session_id |-> dto.session_id, item_id |-> dto.item_id, timestamp |-> t]

(* timestamp: dto.timestamp ? new Date(dto.timestamp) : new Date() *)
EventData(dto, t) ==
    [session_id |-> dto.session_id,
     item_id    |-> dto.item_id,
     timestamp  |-> IF dto.timestamp # "" THEN DateParse(dto.timestamp) ELSE t]

(* the document the store makes of event data.  `at` is history: the `now` of
   the call that wrote it, the time the event was accepted; `n` tells documents
   with equal fields apart, as _id does *)
Doc(ev, at, store) ==
    [session_id |-> ev.session_id, item_id |-> ev.item_id,
     timestamp |-> ev.timestamp, at |-> at,
     n |-> 1 + Cardinality({ e \in store : /\ e.session_id = ev.session_id
                                           /\ e.item_id = ev.item_id
                                           /\ e.timestamp = ev.timestamp
                                           /\ e.at = at })]

(* the store after the first k events of `evs` are inserted *)
RECURSIVE InsertAll(_, _, _, _)
InsertAll(store, evs, k, at) ==
    IF k = 0 THEN store
    ELSE LET before == InsertAll(store, evs, k - 1, at)
         IN  before \cup { Doc(evs[k].event, at, before) }

(* mutant: the cache is not set *)
CacheSet_Forgotten(cache, key, t) == cache

(* cache.set(cacheKey, now) *)
CacheSet(cache, key, t) == (key :> t) @@ cache

(* mutant: unshift instead of push *)
Push_Front(valid, ev) == << ev >> \o valid

(* validImpressions.push(...) / validClicks.push(...) *)
Push(valid, ev) == Append(valid, ev)

(* mutant: one map serves both kinds *)
SetCache_Shared(kind, cache) == impressionCache' = cache /\ clickCache' = cache

SetCache(kind, cache) ==
    IF kind = "impression"
    THEN impressionCache' = cache /\ UNCHANGED clickCache
    ELSE clickCache' = cache /\ UNCHANGED impressionCache

SetStore(kind, store) ==
    IF kind = "impression"
    THEN impressions' = store /\ UNCHANGED clicks
    ELSE clicks' = store /\ UNCHANGED impressions

(* slot p's write of the first k events of its data reaches the store; history:
   the calls of the same kind in flight at that moment overlap p's call, and
   note what p persisted *)
Persist(p, k) ==
    /\ SetStore(KindOf(op[p]), InsertAll(StoreOf(KindOf(op[p])), data[p], k, now[p]))
    /\ rivals' = [q \in Procs |->
                    IF q # p /\ q \in InFlight /\ KindOf(op[q]) = KindOf(op[p])
                    THEN rivals[q] \cup
                           { [op |-> op[p], session_id |-> data[p][j].event.session_id,
                              item_id |-> data[p][j].event.item_id] : j \in 1..k }
                    ELSE rivals[q]]

(* mutant: the cache is set right after the cache check, before the existence
   query is answered *)
TrackCall_CacheFirst(p, o, dto) ==
    /\ Begin(p, o, << dto >>)
    /\ IF TooRecent(CacheOf(KindOf(o)), CacheKey(dto), clock, Cooldown(KindOf(o)))
       THEN /\ Finish(p, [status |-> "rate_limited", value |-> <<>>])
            /\ UNCHANGED << impressionCache, clickCache >>
       ELSE /\ pc' = [pc EXCEPT ![p] = "findOne"]
            /\ result' = [result EXCEPT ![p] = NoResult]
            /\ data' = [data EXCEPT ![p] = <<>>]
            /\ SetCache(KindOf(o), CacheSet(CacheOf(KindOf(o)), CacheKey(dto), clock))
    /\ UNCHANGED << config, clock, impressions, clicks, failures >>

(* trackImpression / trackClick up to the first await: the cache check, then
   the existence query is sent *)
TrackCall(p, o, dto) ==
    /\ Begin(p, o, << dto >>)
    /\ IF TooRecent(CacheOf(KindOf(o)), CacheKey(dto), clock, Cooldown(KindOf(o)))
       THEN Finish(p, [status |-> "rate_limited", value |-> <<>>])
       ELSE /\ pc' = [pc EXCEPT ![p] = "findOne"]
            /\ result' = [result EXCEPT ![p] = NoResult]
            /\ data' = [data EXCEPT ![p] = <<>>]
    /\ UNCHANGED << config, clock, impressionCache, clickCache, impressions, clicks,
                    failures >>

trackImpression(p) == \E dto \in Dtos : TrackCall(p, "trackImpression", dto)

trackClick(p) == \E dto \in ClickDtos : TrackCall(p, "trackClick", dto)

(* mutant: the existence query looks back the impression cooldown only *)
ExistingOne_CooldownWindow(store, dto, t) ==
    Matches(store, dto.session_id, dto.item_id, t - IMPRESSION_COOLDOWN)

(* findImpressionBySessionAndItem / findClickBySessionAndItem: a document of
   the key with timestamp >= now - RATE_LIMIT_WINDOW, or null *)
ExistingOne(store, dto, t) ==
    Matches(store, dto.session_id, dto.item_id, t - RATE_LIMIT_WINDOW)

(* the existence query of a single method answers and the method runs on to
   its next await: the duplicate rejection, or the event data is built, the
   cache is set and the save is sent *)
AfterFindOne(p) ==
    /\ Settled
    /\ pc[p] = "findOne"
    /\ IF ExistingOne(StoreOf(KindOf(op[p])), input[p][1], now[p]) # {}
       THEN /\ Finish(p, [status |-> "duplicate", value |-> <<>>])
            /\ UNCHANGED << impressionCache, clickCache >>
       ELSE /\ data' = [data EXCEPT ![p] =
                          << [event |-> EventData(input[p][1], clock), idx |-> 1] >>]
            /\ SetCache(KindOf(op[p]),
                        CacheSet(CacheOf(KindOf(op[p])), CacheKey(input[p][1]), now[p]))
            /\ pc' = [pc EXCEPT ![p] = "save"]
            /\ UNCHANGED result
    /\ UNCHANGED << config, clock, impressions, clicks, op, input, now,
                    rivals, calls, failures >>

(* schema validation of the documents made of `evs`: `timestamp` is a required
   Date, and an Invalid Date does not cast to one *)
Validates(evs) == \A j \in 1..Len(evs) : evs[j].event.timestamp # InvalidDate

(* createImpression / createClick: save() validates the document, the store
   inserts it and the method returns it; a document that fails validation is
   not sent to the store and the method throws the validation error *)
SaveExec(p) ==
    /\ Settled
    /\ pc[p] = "save"
    /\ IF Validates(data[p])
       THEN /\ Persist(p, 1)
            /\ Finish(p, [status |-> "ok", value |-> data[p]])
       ELSE /\ Persist(p, 0)
            /\ Finish(p, [status |-> "validation_error", value |-> <<>>])
    /\ UNCHANGED << config, clock, impressionCache, clickCache, op, input, now,
                    calls, failures >>

(* mutant: the empty batch is not returned at once *)
BatchCall_NoEmptyReturn(p, o, dtos) ==
    /\ Begin(p, o, dtos)
    /\ pc' = [pc EXCEPT ![p] = "find"]
    /\ result' = [result EXCEPT ![p] = NoResult]
    /\ data' = [data EXCEPT ![p] = <<>>]
    /\ UNCHANGED << config, clock, impressionCache, clickCache, impressions, clicks,
                    failures >>

(* trackImpressionsBatch / trackClicksBatch up to the first await: the empty
   batch returns at once, otherwise the bulk existence query is sent *)
BatchCall(p, o, dtos) ==
    /\ Begin(p, o, dtos)
    /\ IF Len(dtos) = 0
       THEN Finish(p, [status |-> "ok", value |-> <<>>])
       ELSE /\ pc' = [pc EXCEPT ![p] = "find"]
            /\ result' = [result EXCEPT ![p] = NoResult]
            /\ data' = [data EXCEPT ![p] = <<>>]
    /\ UNCHANGED << config, clock, impressionCache, clickCache, impressions, clicks,
                    failures >>

trackImpressionsBatch(p) == \E dtos \in Batches : BatchCall(p, "trackImpressionsBatch", dtos)

trackClicksBatch(p) == \E dtos \in ClickBatches : BatchCall(p, "trackClicksBatch", dtos)

(* mutant: the pre-check has no time bound *)
FindExisting_AnyTime(store, dtos, startTime) ==
    UNION { { e \in store : e.session_id = dtos[i].session_id /\ e.item_id = dtos[i].item_id } :
              i \in 1..Len(dtos) }

(* findExistingImpressions / findExistingClicks: the documents matching one of
   the pairs with timestamp >= startTime *)
FindExisting(store, dtos, startTime) ==
    UNION { Matches(store, dtos[i].session_id, dtos[i].item_id, startTime) :
              i \in 1..Len(dtos) }

(* mutant: the key of the set is built item first *)
ExistingSet_Swapped(docs) == { e.item_id \o "_" \o e.session_id : e \in docs }

(* new Set(existing.map(e => `${e.session_id}_${e.item_id}`)) *)
ExistingSet(docs) == { CacheKey(e) : e \in docs }

(* the for loop of the batch methods from input position i on: an event is
   skipped when the cache has its key inside the cooldown or the pre-check found
   its key, and is otherwise pushed on the valid list with the cache set *)
RECURSIVE BatchLoop(_, _, _, _, _, _, _, _)
BatchLoop(dtos, i, cache, valid, existingSet, t, cooldown, today) ==
    IF i > Len(dtos) THEN [cache |-> cache, valid |-> valid]
    ELSE IF TooRecent(cache, CacheKey(dtos[i]), t, cooldown)
         THEN BatchLoop(dtos, i + 1, cache, valid, existingSet, t, cooldown, today)
    ELSE IF CacheKey(dtos[i]) \in existingSet
         THEN BatchLoop(dtos, i + 1, cache, valid, existingSet, t, cooldown, today)
    ELSE BatchLoop(dtos, i + 1, CacheSet(cache, CacheKey(dtos[i]), t),
                   Push(valid, [event |-> EventData(dtos[i], today), idx |-> i]),
                   existingSet, t, cooldown, today)

(* the bulk existence query answers and the batch method runs on to its next
   await: the loop, then the empty return or the insertMany is sent *)
AfterFind(p) ==
    /\ Settled
    /\ pc[p] = "find"
    /\ LET kind == KindOf(op[p])
           found == FindExisting(StoreOf(kind), input[p], now[p] - RATE_LIMIT_WINDOW)
           out == BatchLoop(input[p], 1, CacheOf(kind), <<>>, ExistingSet(found),
                            now[p], Cooldown(kind), clock)
       IN  /\ SetCache(kind, out.cache)
           /\ IF Len(out.valid) = 0
              THEN Finish(p, [status |-> "ok", value |-> <<>>])
              ELSE /\ data' = [data EXCEPT ![p] = out.valid]
                   /\ pc' = [pc EXCEPT ![p] = "insertMany"]
                   /\ UNCHANGED result
    /\ UNCHANGED << config, clock, impressions, clicks, op, input, now,
                    rivals, calls, failures >>

(* mutant: the documents are written one call each, and the method returns
   after the first *)
InsertManyExec_OneByOne(p) ==
    /\ Settled
    /\ pc[p] = "insertMany"
    /\ Validates(data[p])
    /\ Persist(p, 1)
    /\ Finish(p, [status |-> "ok", value |-> data[p]])
    /\ UNCHANGED << config, clock, impressionCache, clickCache, op, input, now,
                    calls, failures >>

(* createImpressionsBatch / createClicksBatch: insertMany validates the
   documents, the store inserts them and the method returns them; when one
   fails validation none is sent to the store and the method throws *)
InsertManyExec(p) ==
    /\ Settled
    /\ pc[p] = "insertMany"
    /\ IF Validates(data[p])
       THEN /\ Persist(p, Len(data[p]))
            /\ Finish(p, [status |-> "ok", value |-> data[p]])
       ELSE /\ Persist(p, 0)
            /\ Finish(p, [status |-> "validation_error", value |-> <<>>])
    /\ UNCHANGED << config, clock, impressionCache, clickCache, op, input, now,
                    calls, failures >>

(* mutant: the rejection of the existence query is caught and reported as a
   duplicate *)
FindFails_Swallowed(p) ==
    /\ Settled
    /\ pc[p] \in {"findOne", "find"}
    /\ failures < MaxFailures
    /\ failures' = failures + 1
    /\ Finish(p, [status |-> "duplicate", value |-> <<>>])
    /\ UNCHANGED << config, clock, impressionCache, clickCache, impressions, clicks,
                    op, input, now, rivals, calls >>

(* the store is unavailable for an existence query: the awaited call rejects
   and the method throws *)
FindFails(p) ==
    /\ Settled
    /\ pc[p] \in {"findOne", "find"}
    /\ failures < MaxFailures
    /\ failures' = failures + 1
    /\ Finish(p, [status |-> "store_error", value |-> <<>>])
    /\ UNCHANGED << config, clock, impressionCache, clickCache, impressions, clicks,
                    op, input, now, rivals, calls >>

(* the store is unavailable for a write: the awaited call rejects and the
   method throws.  A failed insertMany may have inserted the documents that
   came before the failure *)
WriteFails(p) ==
    /\ Settled
    /\ pc[p] \in {"save", "insertMany"}
    /\ Validates(data[p])
    /\ failures < MaxFailures
    /\ failures' = failures + 1
    /\ \E k \in 0..(Len(data[p]) - 1) : Persist(p, k)
    /\ Finish(p, [status |-> "store_error", value |-> <<>>])
    /\ UNCHANGED << config, clock, impressionCache, clickCache, op, input, now,
                    calls >>

(* mutant: every entry is deleted *)
cleanCache_Eager(cache, t) == << >>

(* cleanCache: delete the entries with timestamp < now - RATE_LIMIT_WINDOW *)
cleanCache(cache, t) ==
    [k \in { k \in DOMAIN cache : ~(cache[k] < t - RATE_LIMIT_WINDOW) } |-> cache[k]]

(* mutant: only the impression cache is cleaned *)
CleanupTick_ImpressionsOnly ==
    /\ Settled
    /\ impressionCache' = cleanCache(impressionCache, clock)
    /\ UNCHANGED << config, clock, clickCache, impressions, clicks, pc, op, input, now,
                    data, result, rivals, calls, failures >>

(* the cleanup interval of onModuleInit fires: both caches are cleaned.  The
   time of construction is not fixed, so a firing can come at any instant; the
   instants of the model lie within one CLEANUP_INTERVAL, and a firing before
   the last one deletes nothing the last one would not delete *)
CleanupTick ==
    /\ Settled
    /\ impressionCache' = cleanCache(impressionCache, clock)
    /\ clickCache' = cleanCache(clickCache, clock)
    /\ UNCHANGED << config, clock, impressions, clicks, pc, op, input, now, data, result,
                    rivals, calls, failures >>

(* the caller takes the outcome; the slot is free for another request *)
Return(p) ==
    /\ pc[p] = "done"
    /\ pc' = [pc EXCEPT ![p] = "idle"]
    /\ op' = [op EXCEPT ![p] = "none"]
    /\ input' = [input EXCEPT ![p] = <<>>]
    /\ now' = [now EXCEPT ![p] = 0]
    /\ result' = [result EXCEPT ![p] = NoResult]
    /\ rivals' = [rivals EXCEPT ![p] = {}]
    /\ UNCHANGED << config, clock, impressionCache, clickCache, impressions, clicks,
                    data, calls, failures >>

(* trackImpression / trackClick of dto run at time t from the current state to
   its end, no other step in between and the store available: whether the
   event was persisted, and the cache and the collection of the kind
   afterwards *)
SingleRun(kind, dto, t) ==
    LET cache == CacheOf(kind)
        store == StoreOf(kind)
        evs == << [event |-> EventData(dto, t), idx |-> 1] >>
    IN  IF \/ TooRecent(cache, CacheKey(dto), t, Cooldown(kind))
           \/ ExistingOne(store, dto, t) # {}
        THEN [persisted |-> FALSE, cache |-> cache, store |-> store]
        ELSE [persisted |-> Validates(evs),
              cache |-> CacheSet(cache, CacheKey(dto), t),
              store |-> IF Validates(evs) THEN InsertAll(store, evs, 1, t) ELSE store]

(* trackImpressionsBatch / trackClicksBatch of dtos run at time t from the
   current state to its end, likewise *)
BatchRun(kind, dtos, t) ==
    LET cache == CacheOf(kind)
        store == StoreOf(kind)
        found == FindExisting(store, dtos, t - RATE_LIMIT_WINDOW)
        out == BatchLoop(dtos, 1, cache, <<>>, ExistingSet(found), t, Cooldown(kind), t)
    IN  IF Len(dtos) = 0
        THEN [persisted |-> FALSE, cache |-> cache, store |-> store]
        ELSE [persisted |-> Len(out.valid) > 0 /\ Validates(out.valid),
              cache |-> out.cache,
              store |-> IF Validates(out.valid)
                        THEN InsertAll(store, out.valid, Len(out.valid), t)
                        ELSE store]

Next ==
    \/ Tick
    \/ CleanupTick
    \/ \E p \in Procs : trackImpression(p)
    \/ \E p \in Procs : trackClick(p)
    \/ \E p \in Procs : AfterFindOne(p)
    \/ \E p \in Procs : SaveExec(p)
    \/ \E p \in Procs : trackImpressionsBatch(p)
    \/ \E p \in Procs : trackClicksBatch(p)
    \/ \E p \in Procs : AfterFind(p)
    \/ \E p \in Procs : InsertManyExec(p)
    \/ \E p \in Procs : FindFails(p)
    \/ \E p \in Procs : WriteFails(p)
    \/ \E p \in Procs : Return(p)

Spec == Init /\ [][Next]_vars

(* what the scheduling guarantees: a settled call is handed to its caller, and
   the cleanup interval keeps firing.  The store gives no guarantee to answer,
   and no step of the methods ends a call whose store request stays
   unanswered: no store call carries a timeout (the connection is opened with
   the driver's defaults, part_006:15) *)
FairSpec ==
    /\ Spec
    /\ WF_vars(\E p \in Procs : Return(p))
    /\ WF_vars(CleanupTick)

(***************************************************************************)
(* Identifiers with the separator in them.  The cache key and the key of   *)
(* the batch pre-check join session_id and item_id with "_"; SpecKeys runs *)
(* the impression submissions on two pairs whose joined keys are equal.    *)
(***************************************************************************)

(* two different (session_id, item_id) pairs *)
KeyPairs == { <<"a_b", "c">>, <<"a", "b_c">> }

KeyDtos == { [session_id |-> pr[1], item_id |-> pr[2], timestamp |-> ""] : pr \in KeyPairs }

trackImpressionOfPair(p) == \E dto \in KeyDtos : TrackCall(p, "trackImpression", dto)

trackImpressionsBatchOfPairs(p) ==
    \E dtos \in SeqsUpTo(KeyDtos, MaxBatch) : BatchCall(p, "trackImpressionsBatch", dtos)

NextKeys ==
    \/ Tick
    \/ CleanupTick
    \/ \E p \in Procs : trackImpressionOfPair(p)
    \/ \E p \in Procs : AfterFindOne(p)
    \/ \E p \in Procs : SaveExec(p)
    \/ \E p \in Procs : trackImpressionsBatchOfPairs(p)
    \/ \E p \in Procs : AfterFind(p)
    \/ \E p \in Procs : InsertManyExec(p)
    \/ \E p \in Procs : Return(p)

SpecKeys == Init /\ [][NextKeys]_vars

(***************************************************************************)
(* The service under a configuration of the deployment.  Every setting is  *)
(* read with ConfigService.get('ANALYTICS_...', default) and used as read: *)
(* nothing relates the cooldowns to the rate-limit window.                 *)
(***************************************************************************)

(* ANALYTICS_RATE_LIMIT_WINDOW = 30000 and ANALYTICS_IMPRESSION_COOLDOWN =
   60000 set in the environment, the other settings left to their defaults *)
LongCooldownConfig ==
    [ DefaultConfig EXCEPT !.RATE_LIMIT_WINDOW = 30000,
                           !.IMPRESSION_COOLDOWN = 60000 ]

Configs == { DefaultConfig, LongCooldownConfig }

(* the constructor with the environment's settings *)
InitConfig ==
    /\ config \in Configs
    /\ clock = 0
    /\ impressionCache = << >>
    /\ clickCache = << >>
    /\ impressions = {}
    /\ clicks = {}
    /\ pc = [p \in Procs |-> "idle"]
    /\ op = [p \in Procs |-> "none"]
    /\ input = [p \in Procs |-> <<>>]
    /\ now = [p \in Procs |-> 0]
    /\ data = [p \in Procs |-> <<>>]
    /\ result = [p \in Procs |-> NoResult]
    /\ rivals = [p \in Procs |-> {}]
    /\ calls = 0
    /\ failures = 0

SpecConfig == InitConfig /\ [][Next]_vars

(***************************************************************************)
(* The single submissions at the edges of the cooldown and of the window: *)
(* the clock takes the instants a cooldown, a window and a window plus one *)
(* millisecond after the first.                                            *)
(***************************************************************************)

EdgeInstants == { 0, 5000, 30000, 60000, 60001 }

(* time passes, to the next request *)
TickEdge ==
    /\ Settled
    /\ InFlight = {}
    /\ \E t \in EdgeInstants : t > clock /\ clock' = t
    /\ UNCHANGED << config, impressionCache, clickCache, impressions, clicks,
                    pc, op, input, now, data, result, rivals, calls, failures >>

NextEdges ==
    \/ TickEdge
    \/ CleanupTick
    \/ \E p \in Procs : trackImpression(p)
    \/ \E p \in Procs : trackClick(p)
    \/ \E p \in Procs : AfterFindOne(p)
    \/ \E p \in Procs : SaveExec(p)
    \/ \E p \in Procs : Return(p)

SpecEdges == Init /\ [][NextEdges]_vars

(***************************************************************************)
(* Retention of the stored events.  cleanOldEvents and the aggregation     *)
(* queries work on whatever the collections hold, so they are studied on   *)
(* collections drawn from a bounded family, under the specification        *)
(* SpecStore.  There an instant is a calendar day and the milliseconds     *)
(* into it, which is what Date.setDate works on, `clock` is the            *)
(* milliseconds into the day Today, and a stored document has the fields   *)
(* item_id, session_id, user_id, timestamp and n.                          *)
(***************************************************************************)


(* bound: the events of one item in a collection *)
MaxStored == 10

(* the day new Date() falls on *)
Today == 400

StoreItems == {"A", "B", "C"}

Instant(day, ms) == [day |-> day, ms |-> ms]

(* a < b on instants *)
Before(a, b) == a.day < b.day \/ (a.day = b.day /\ a.ms < b.ms)

(* the k-th stored event of an item: the events of an item are 30 days apart,
   the first one of today; they come from two sessions, and from two users and
   anonymous visitors (user_id is optional, "" is a document without it) *)
StoredEvent(item, k) ==
    [item_id    |-> item,
     session_id |-> IF k % 2 = 1 THEN "s1" ELSE "s2",
     user_id    |-> CASE k % 3 = 1 -> "u1" [] k % 3 = 2 -> "u2" [] OTHER -> "",
     timestamp  |-> Instant(Today - 30 * (k - 1), 0),
     n          |-> k]

(* a collection with count[item] events of each item *)
StoredEvents(count) ==
    UNION { { StoredEvent(item, k) : k \in 1..count[item] } : item \in StoreItems }

(* the numbers of impressions and of clicks an item may have at the start *)
ImpressionCounts(item) ==
    CASE item = "A" -> {0, 5, MaxStored} [] item = "B" -> {5} [] OTHER -> {3}

ClickCounts(item) == IF item = "A" THEN {0, 2} ELSE {0}

StoreInit ==
    /\ config = DefaultConfig
    /\ clock = 0
    /\ impressionCache = << >>
    /\ clickCache = << >>
    /\ \E count \in [StoreItems -> 0..MaxStored] :
          /\ \A item \in StoreItems : count[item] \in ImpressionCounts(item)
          /\ impressions = StoredEvents(count)
    /\ \E count \in [StoreItems -> 0..MaxStored] :
          /\ \A item \in StoreItems : count[item] \in ClickCounts(item)
          /\ clicks = StoredEvents(count)
    /\ pc = [p \in Procs |-> "idle"]
    /\ op = [p \in Procs |-> "none"]
    /\ input = [p \in Procs |-> <<>>]
    /\ now = [p \in Procs |-> 0]
    /\ data = [p \in Procs |-> <<>>]
    /\ result = [p \in Procs |-> NoResult]
    /\ rivals = [p \in Procs |-> {}]
    /\ calls = 0
    /\ failures = 0

(* the daysToKeep the callers pass *)
DaysToKeep == {0, 15, 120}

(* the arguments of cleanOldEvents(daysToKeep?: number): none, or the days *)
PurgeArgs == { <<>> } \cup { << d >> : d \in DaysToKeep }

(* daysToKeep || this.config.DATA_RETENTION_DAYS: undefined and 0 are falsy *)
RetentionDays(args) ==
    IF args # <<>> /\ args[1] # 0 THEN args[1] ELSE DATA_RETENTION_DAYS

(* cutoffDate = new Date(); cutoffDate.setDate(cutoffDate.getDate() - days) *)
CutoffDate(t, days) == Instant(Today - days, t)

(* cleanOldEvents up to its await: days = daysToKeep || DATA_RETENTION_DAYS,
   the cutoff, and both deletions are sent (Promise.all) *)
cleanOldEvents(p) ==
    \E args \in PurgeArgs :
        /\ Begin(p, "cleanOldEvents", args)
        /\ LET days == RetentionDays(args)
           IN  data' = [data EXCEPT ![p] =
                          [cutoffDate |-> CutoffDate(clock, days),
                           pending |-> {"impression", "click"},
                           deletedCount |-> [impression |-> 0, click |-> 0]]]
        /\ pc' = [pc EXCEPT ![p] = "deleteMany"]
        /\ result' = [result EXCEPT ![p] = NoResult]
        /\ UNCHANGED << config, clock, impressionCache, clickCache, impressions, clicks,
                        failures >>

(* mutant: $lte instead of $lt *)
DeleteMany_Inclusive(store, cutoffDate) ==
    { e \in store : Before(cutoffDate, e.timestamp) }

(* deleteMany({ timestamp: { $lt: cutoffDate } }): the collection afterwards *)
DeleteMany(store, cutoffDate) ==
    { e \in store : ~ Before(e.timestamp, cutoffDate) }

(* mutant: the count is of the documents that stay *)
Deleted_CountsKept(p, kind) ==
    [data[p] EXCEPT !.pending = @ \ {kind},
                    !.deletedCount[kind] =
                        Cardinality(DeleteMany(StoreOf(kind), data[p].cutoffDate))]

(* the purge of slot p after its deletion in the collection of `kind` has run *)
Deleted(p, kind) ==
    [data[p] EXCEPT !.pending = @ \ {kind},
                    !.deletedCount[kind] =
                        Cardinality(StoreOf(kind) \ DeleteMany(StoreOf(kind), data[p].cutoffDate))]

(* one deletion of cleanOldEvents runs in the store; when both have run the
   method returns the two counts *)
DeleteExec(p, kind) ==
    /\ Settled
    /\ pc[p] = "deleteMany"
    /\ kind \in data[p].pending
    /\ SetStore(kind, DeleteMany(StoreOf(kind), data[p].cutoffDate))
    /\ IF Deleted(p, kind).pending = {}
       THEN Finish(p, [status |-> "ok",
                       value |-> [impressions |-> Deleted(p, kind).deletedCount.impression,
                                  clicks |-> Deleted(p, kind).deletedCount.click]])
       ELSE /\ data' = [data EXCEPT ![p] = Deleted(p, kind)]
            /\ UNCHANGED << pc, result >>
    /\ UNCHANGED << config, clock, impressionCache, clickCache, op, input, now, rivals,
                    calls, failures >>

deleteOldImpressions(p) == DeleteExec(p, "impression")

deleteOldClicks(p) == DeleteExec(p, "click")

(* the store is unavailable for a deletion: Promise.all rejects and
   cleanOldEvents throws.  The other deletion, when still pending, has been
   sent as well: it runs or it fails too *)
DeleteFails(p) ==
    /\ Settled
    /\ pc[p] = "deleteMany"
    /\ failures < MaxFailures
    /\ failures' = failures + 1
    /\ \E kind \in data[p].pending :
          \/ UNCHANGED << impressions, clicks >>
          \/ \E other \in data[p].pending \ {kind} :
                SetStore(other, DeleteMany(StoreOf(other), data[p].cutoffDate))
    /\ Finish(p, [status |-> "store_error", value |-> <<>>])
    /\ UNCHANGED << config, clock, impressionCache, clickCache, op, input, now, rivals,
                    calls >>

(***************************************************************************)
(* Aggregation queries.  An optional Date argument is a sequence: empty     *)
(* when the argument is not given, else the instant.                       *)
(***************************************************************************)

(* new Date(string) of a string that is no date: an Invalid Date *)
InvalidInstant == Instant(InvalidDate, InvalidDate)

(* the time ranges the callers ask for: none, a start, a start and an end, and
   a start that is no date (startDate ? new Date(startDate) : undefined) *)
Ranges ==
    { [startDate |-> <<>>, endDate |-> <<>>],
      [startDate |-> << Instant(Today - 60, 0) >>, endDate |-> <<>>],
      [startDate |-> << Instant(Today - 60, 0) >>, endDate |-> << Instant(Today - 30, 0) >>],
      [startDate |-> << InvalidInstant >>, endDate |-> <<>>] }

Users == {"u1", "u2"}

(* buildDateFilter: { $gte: startDate, $lte: endDate }, each when given and
   !isNaN(getTime()) *)
buildDateFilter(startDate, endDate) ==
    [gte |-> IF startDate # <<>> /\ startDate[1] # InvalidInstant THEN startDate ELSE <<>>,
     lte |-> IF endDate # <<>> /\ endDate[1] # InvalidInstant THEN endDate ELSE <<>>]

(* buildAnalyticsFilter: the query of the filters; "" and the empty sequence
   are the keys the query does not have *)
buildAnalyticsFilter(filters) ==
    [item_id   |-> filters.item_id,
     user_id   |-> filters.user_id,
     timestamp |-> IF filters.startDate # <<>> \/ filters.endDate # <<>>
                   THEN << buildDateFilter(filters.startDate, filters.endDate) >>
                   ELSE <<>>]

(* timestamp matches { $gte, $lte } *)
InDateFilter(t, dateFilter) ==
    /\ dateFilter.gte # <<>> => ~ Before(t, dateFilter.gte[1])
    /\ dateFilter.lte # <<>> => ~ Before(dateFilter.lte[1], t)

(* the query layer casts the filter to the schema before it is sent: a
   timestamp condition without operator, { timestamp: {} }, is an equality with
   a value that is no Date, and the cast fails *)
Casts(query) ==
    query.timestamp # <<>> =>
        (query.timestamp[1].gte # <<>> \/ query.timestamp[1].lte # <<>>)

(* the documents of a collection a query matches *)
Find(store, query) ==
    { e \in store : /\ query.item_id # "" => e.item_id = query.item_id
                    /\ query.user_id # "" => e.user_id = query.user_id
                    /\ query.timestamp # <<>> => InDateFilter(e.timestamp, query.timestamp[1]) }

(* model.distinct(field, query): the values of the field in the matching
   documents that have it *)
Distinct(store, field, query) == { e[field] : e \in Find(store, query) } \ {""}

(* mutant: the ratio is not turned into a percentage *)
ClickThroughRate_Ratio(nImpressions, nClicks) ==
    IF nImpressions > 0 THEN [num |-> nClicks, den |-> nImpressions]
    ELSE [num |-> 0, den |-> 1]

(* impressions > 0 ? (clicks / impressions) * 100 : 0, as the fraction num/den *)
ClickThroughRate(nImpressions, nClicks) ==
    IF nImpressions > 0 THEN [num |-> nClicks * 100, den |-> nImpressions]
    ELSE [num |-> 0, den |-> 1]

IsAggregation(o) == o \in {"getItemAnalytics", "getUserAnalytics", "getTrendingItems"}

(* the read operations of the service: the aggregations and the time series *)
IsRead(o) == IsAggregation(o) \/ o = "getTimeSeriesData"

(* mutant: the call leaves an entry in the impression cache, as a submission
   does *)
StatsCall_Cached(p, o, filters) ==
    /\ Begin(p, o, << filters >>)
    /\ \A q \in Procs : ~ IsRead(op[q])
    /\ data' = [data EXCEPT ![p] =
                   [pending |-> {"impression", "click"},
                    count |-> [impression |-> 0, click |-> 0],
                    distinct |-> 0]]
    /\ pc' = [pc EXCEPT ![p] = "count"]
    /\ result' = [result EXCEPT ![p] = NoResult]
    /\ impressionCache' = CacheSet(impressionCache, o, clock)
    /\ UNCHANGED << config, clock, clickCache, impressions, clicks, failures >>

(* getItemAnalytics / getUserAnalytics up to the first await: the filters, and
   both counts are sent (Promise.all).  The aggregations only read, so they do
   not affect each other: one is followed at a time, next to the purges *)
StatsCall(p, o, filters) ==
    /\ Begin(p, o, << filters >>)
    /\ \A q \in Procs : ~ IsRead(op[q])
    /\ data' = [data EXCEPT ![p] =
                   [pending |-> {"impression", "click"},
                    count |-> [impression |-> 0, click |-> 0],
                    distinct |-> 0]]
    /\ pc' = [pc EXCEPT ![p] = "count"]
    /\ result' = [result EXCEPT ![p] = NoResult]
    /\ UNCHANGED << config, clock, impressionCache, clickCache, impressions, clicks,
                    failures >>

getItemAnalytics(p) ==
    \E itemId \in StoreItems, range \in Ranges :
        StatsCall(p, "getItemAnalytics",
                  [item_id |-> itemId, user_id |-> "",
                   startDate |-> range.startDate, endDate |-> range.endDate])

getUserAnalytics(p) ==
    \E userId \in Users, range \in Ranges :
        StatsCall(p, "getUserAnalytics",
                  [item_id |-> "", user_id |-> userId,
                   startDate |-> range.startDate, endDate |-> range.endDate])

(* countImpressionsByFilter / countClicksByFilter answers; after both, the
   first distinct query is sent.  A count whose filter does not cast rejects
   and the method throws *)
CountExec(p, kind) ==
    /\ Settled
    /\ pc[p] = "count"
    /\ kind \in data[p].pending
    /\ IF Casts(buildAnalyticsFilter(input[p][1]))
       THEN /\ data' = [data EXCEPT ![p].pending = @ \ {kind},
                                    ![p].count[kind] =
                                        Cardinality(Find(StoreOf(kind),
                                                         buildAnalyticsFilter(input[p][1])))]
            /\ pc' = [pc EXCEPT ![p] = IF data[p].pending # {kind} THEN "count"
                                       ELSE IF op[p] = "getItemAnalytics" THEN "distinctUsers"
                                       ELSE "viewedItems"]
            /\ UNCHANGED result
       ELSE Finish(p, [status |-> "cast_error", value |-> <<>>])
    /\ UNCHANGED << config, clock, impressionCache, clickCache, impressions, clicks,
                    op, input, now, rivals, calls, failures >>

countImpressionsByFilter(p) == CountExec(p, "impression")

countClicksByFilter(p) == CountExec(p, "click")

(* the first distinct query answers (getDistinctUsersByFilter, or
   getDistinctItemsByFilter for viewedItems) and the second one is sent; both
   read the impressions *)
FirstDistinctExec(p) ==
    /\ Settled
    /\ pc[p] \in {"distinctUsers", "viewedItems"}
    /\ data' = [data EXCEPT ![p].distinct =
                   Cardinality(Distinct(impressions,
                                        IF pc[p] = "distinctUsers" THEN "user_id" ELSE "item_id",
                                        buildAnalyticsFilter(input[p][1])))]
    /\ pc' = [pc EXCEPT ![p] = IF pc[p] = "distinctUsers" THEN "distinctSessions"
                               ELSE "clickedItems"]
    /\ UNCHANGED << config, clock, impressionCache, clickCache, impressions, clicks,
                    op, input, now, result, rivals, calls, failures >>

(* the second distinct query answers (getDistinctSessionsByFilter, or
   getDistinctItemsByFilter for clickedItems) and the method returns its
   report *)
SecondDistinctExec(p) ==
    /\ Settled
    /\ pc[p] \in {"distinctSessions", "clickedItems"}
    /\ LET query == buildAnalyticsFilter(input[p][1])
           nImpressions == data[p].count.impression
           nClicks == data[p].count.click
       IN  Finish(p, [status |-> "ok",
                      value |-> IF pc[p] = "distinctSessions"
                                THEN [itemId |-> input[p][1].item_id,
                                      impressions |-> nImpressions,
                                      clicks |-> nClicks,
                                      uniqueUsers |-> data[p].distinct,
                                      uniqueSessions |->
                                          Cardinality(Distinct(impressions, "session_id", query)),
                                      clickThroughRate |->
                                          ClickThroughRate(nImpressions, nClicks)]
                                ELSE [userId |-> input[p][1].user_id,
                                      impressions |-> nImpressions,
                                      clicks |-> nClicks,
                                      viewedItems |-> data[p].distinct,
                                      clickedItems |->
                                          Cardinality(Distinct(impressions, "item_id", query)),
                                      clickThroughRate |->
                                          ClickThroughRate(nImpressions, nClicks)]])
    /\ UNCHANGED << config, clock, impressionCache, clickCache, impressions, clicks,
                    op, input, now, rivals, calls, failures >>

(* AnalyticsController: the limit of the dashboard's trending list *)
DEFAULT_TRENDING_ITEMS_LIMIT == 5

(* the limits the callers ask for *)
Limits == {2, DEFAULT_TRENDING_ITEMS_LIMIT}

(* getTrendingItems: the aggregation is sent *)
getTrendingItems(p) ==
    \E limit \in Limits, range \in Ranges :
        /\ Begin(p, "getTrendingItems",
                 << [limit |-> limit, startDate |-> range.startDate,
                     endDate |-> range.endDate] >>)
        /\ \A q \in Procs : ~ IsRead(op[q])
        /\ pc' = [pc EXCEPT ![p] = "aggregate"]
        /\ result' = [result EXCEPT ![p] = NoResult]
        /\ data' = [data EXCEPT ![p] = <<>>]
        /\ UNCHANGED << config, clock, impressionCache, clickCache, impressions, clicks,
                        failures >>

(* the $match stage, present when the date filter has a key *)
MatchStage(store, dateFilter) ==
    IF dateFilter.gte # <<>> \/ dateFilter.lte # <<>>
    THEN { e \in store : InDateFilter(e.timestamp, dateFilter) }
    ELSE store

(* the $group and $project stages: one document per item_id *)
GroupStage(docs) ==
    { [itemId |-> item,
       impressions |-> Cardinality({ e \in docs : e.item_id = item }),
       uniqueUsers |-> Cardinality({ e.user_id : e \in { d \in docs : d.item_id = item } } \ {""}),
       uniqueSessions |-> Cardinality({ e.session_id : e \in { d \in docs : d.item_id = item } })] :
      item \in { e.item_id : e \in docs } }

RECURSIVE Orderings(_)
Orderings(S) ==
    IF S = {} THEN { <<>> }
    ELSE UNION { { << x >> \o t : t \in Orderings(S \ {x}) } : x \in S }

(* the $sort stage, { impressions: -1 }: the orders the sort can give.  The
   sort has no other key, so documents with equal impressions come in any
   order *)
SortStage(groups) ==
    { s \in Orderings(groups) :
        \A j \in 1..(Len(s) - 1) : s[j].impressions >= s[j + 1].impressions }

(* the $limit stage *)
LimitStage(s, limit) == SubSeq(s, 1, IF Len(s) < limit THEN Len(s) ELSE limit)

(* getPopularItemsAggregation answers and getTrendingItems returns the list *)
getPopularItemsAggregation(p) ==
    /\ Settled
    /\ pc[p] = "aggregate"
    /\ LET dateFilter == buildDateFilter(input[p][1].startDate, input[p][1].endDate)
       IN  \E s \in SortStage(GroupStage(MatchStage(impressions, dateFilter))) :
              Finish(p, [status |-> "ok", value |-> LimitStage(s, input[p][1].limit)])
    /\ UNCHANGED << config, clock, impressionCache, clickCache, impressions, clicks,
                    op, input, now, rivals, calls, failures >>

(* the days the callers ask a time series for; 7 is the controller's default *)
SeriesDays == {7, 60}

(* getTimeSeriesData: the series of the impressions and of the clicks are both
   sent (Promise.all) *)
getTimeSeriesData(p) ==
    \E itemId \in StoreItems, days \in SeriesDays :
        /\ Begin(p, "getTimeSeriesData", << [item_id |-> itemId, days |-> days] >>)
        /\ \A q \in Procs : ~ IsRead(op[q])
        /\ data' = [data EXCEPT ![p] =
                       [pending |-> {"impression", "click"},
                        series |-> [impression |-> <<>>, click |-> <<>>]]]
        /\ pc' = [pc EXCEPT ![p] = "timeSeries"]
        /\ result' = [result EXCEPT ![p] = NoResult]
        /\ UNCHANGED << config, clock, impressionCache, clickCache, impressions, clicks,
                        failures >>

(* the pipeline of the repository's getTimeSeriesData / getClickTimeSeriesData:
   $match { item_id, timestamp: { $gte: startDate } }, $group by day with
   count, $sort { _id: 1 } *)
TimeSeries(store, itemId, startDate) ==
    LET docs == { e \in store : e.item_id = itemId /\ ~ Before(e.timestamp, startDate) }
        groups == { [day |-> d, count |-> Cardinality({ e \in docs : e.timestamp.day = d })] :
                      d \in { e.timestamp.day : e \in docs } }
    IN  CHOOSE s \in Orderings(groups) :
            \A j \in 1..(Len(s) - 1) : s[j].day < s[j + 1].day

(* one series of getTimeSeriesData answers; after both the method returns
   them *)
TimeSeriesExec(p, kind) ==
    /\ Settled
    /\ pc[p] = "timeSeries"
    /\ kind \in data[p].pending
    /\ LET series == [data[p].series EXCEPT ![kind] =
                         TimeSeries(StoreOf(kind), input[p][1].item_id,
                                    CutoffDate(now[p], input[p][1].days))]
       IN  IF data[p].pending = {kind}
           THEN Finish(p, [status |-> "ok",
                           value |-> [impressions |-> series.impression,
                                      clicks |-> series.click]])
           ELSE /\ data' = [data EXCEPT ![p].pending = @ \ {kind},
                                        ![p].series = series]
                /\ UNCHANGED << pc, result >>
    /\ UNCHANGED << config, clock, impressionCache, clickCache, impressions, clicks,
                    op, input, now, rivals, calls, failures >>

getImpressionTimeSeriesData(p) == TimeSeriesExec(p, "impression")

getClickTimeSeriesData(p) == TimeSeriesExec(p, "click")

(* the store is unavailable for a query of an aggregation: the method throws *)
QueryFails(p) ==
    /\ Settled
    /\ pc[p] \in {"count", "distinctUsers", "distinctSessions", "viewedItems",
                   "clickedItems", "aggregate", "timeSeries"}
    /\ failures < MaxFailures
    /\ failures' = failures + 1
    /\ Finish(p, [status |-> "store_error", value |-> <<>>])
    /\ UNCHANGED << config, clock, impressionCache, clickCache, impressions, clicks,
                    op, input, now, rivals, calls >>

StoreNext ==
    \/ \E p \in Procs : cleanOldEvents(p)
    \/ \E p \in Procs : deleteOldImpressions(p)
    \/ \E p \in Procs : deleteOldClicks(p)
    \/ \E p \in Procs : DeleteFails(p)
    \/ \E p \in Procs : getItemAnalytics(p)
    \/ \E p \in Procs : getUserAnalytics(p)
    \/ \E p \in Procs : countImpressionsByFilter(p)
    \/ \E p \in Procs : countClicksByFilter(p)
    \/ \E p \in Procs : FirstDistinctExec(p)
    \/ \E p \in Procs : SecondDistinctExec(p)
    \/ \E p \in Procs : getTrendingItems(p)
    \/ \E p \in Procs : getPopularItemsAggregation(p)
    \/ \E p \in Procs : getTimeSeriesData(p)
    \/ \E p \in Procs : getImpressionTimeSeriesData(p)
    \/ \E p \in Procs : getClickTimeSeriesData(p)
    \/ \E p \in Procs : QueryFails(p)
    \/ \E p \in Procs : Return(p)

SpecStore == StoreInit /\ [][StoreNext]_vars

(***************************************************************************)
(* Properties                                                              *)
(***************************************************************************)

SameKey(a, b) == a.session_id = b.session_id /\ a.item_id = b.item_id

Accepted(p) == pc[p] = "done" /\ result[p].status = "ok"

(* the dto carries a timestamp that is no date *)
HasInvalidTimestamp(dto) == dto.timestamp # "" /\ DateParse(dto.timestamp) = InvalidDate

(* C1: two concurrent single submissions of one kind for the same
   (session_id, item_id) cannot both succeed: a single submission never ends
   accepted when a single submission of the same key that overlapped it has
   persisted its event. *)
C1_ConcurrentSinglesNotBothAccepted ==
    \A p \in Procs :
        (Accepted(p) /\ IsSingle(op[p])) =>
            ~ \E r \in rivals[p] : r.op = op[p] /\ SameKey(r, input[p][1])

(* C2: any two accepted events of one kind and key were accepted at least the
   cooldown of the kind apart. *)
C2_AcceptedCooldownApart ==
    \A o \in {"trackImpression", "trackClick"} :
        \A e1, e2 \in StoreOf(KindOf(o)) :
            (e1 # e2 /\ SameKey(e1, e2) /\ e1.at <= e2.at) =>
                e2.at - e1.at >= Cooldown(KindOf(o))

(* C3: after an event of a key is accepted at time t, no event of that kind and
   key is accepted at a time in (t, t + RATE_LIMIT_WINDOW). *)
C3_OneAcceptancePerWindow ==
    \A o \in {"trackImpression", "trackClick"} :
        \A e1, e2 \in StoreOf(KindOf(o)) :
            SameKey(e1, e2) => ~ (e1.at < e2.at /\ e2.at < e1.at + RATE_LIMIT_WINDOW)
(* the state the scenario of C4 starts from, for the key of dto: its only
   accepted impressions were accepted at t = 0 with the timestamp defaulted *)
OnlyAcceptedAtZero(dto) ==
    /\ \E d \in impressions : SameKey(d, dto)
    /\ \A d \in impressions : SameKey(d, dto) => d.at = 0 /\ d.timestamp = 0
    /\ CacheKey(dto) \in DOMAIN impressionCache => impressionCache[CacheKey(dto)] = 0

(* C4: with cooldown 30 s and window 60 s, after an impression of a key is
   accepted at t = 0, an impression of the key submitted at t = 10 s is
   rejected as tracked too recently, one submitted at t = 31 s is rejected as
   already tracked, and one submitted at t = 61 s is accepted and persisted
   (the store being available and the event well-formed). *)
C4_Scenario ==
    [][ \A p \in Procs :
          /\ ( /\ pc[p] = "idle" /\ pc'[p] # "idle"
               /\ op'[p] = "trackImpression"
               /\ OnlyAcceptedAtZero(input'[p][1]) )
             => /\ clock = 10000 => result'[p].status = "rate_limited"
                /\ clock \in {31000, 61000} => pc'[p] = "findOne"
          /\ ( /\ pc[p] = "findOne" /\ pc'[p] # "findOne"
               /\ op[p] = "trackImpression"
               /\ failures' = failures
               /\ OnlyAcceptedAtZero(input[p][1]) )
             => /\ now[p] = 31000 => result'[p].status = "duplicate"
                /\ now[p] = 61000 =>
                     /\ pc'[p] = "save"
                     /\ impressionCache'[CacheKey(input[p][1])] = 61000
          /\ ( /\ pc[p] = "save" /\ pc'[p] # "save"
               /\ op[p] = "trackImpression"
               /\ failures' = failures
               /\ ~ HasInvalidTimestamp(input[p][1])
               /\ now[p] = 61000 )
             => /\ result'[p].status = "ok"
                /\ \E d \in impressions' \ impressions :
                      SameKey(d, input[p][1]) /\ d.at = 61000
      ]_vars

(* C4 witness: an impression is accepted at t = 61 s for a key whose earlier
   impression was accepted at t = 0. *)
C4_Witness ==
    \E p \in Procs :
        /\ Accepted(p) /\ op[p] = "trackImpression" /\ now[p] = 61000
        /\ \E d \in impressions :
              SameKey(d, input[p][1]) /\ d.at = 0 /\ d.timestamp = 0

(* C5: whatever the cache holds, an event is accepted (by a single or a batch
   submission) only if, when the submission decides, the store holds no event
   of its kind and key with timestamp inside the rate-limit window. *)
C5_CacheNeverAccepts ==
    [][ \A p \in Procs :
          ( pc[p] \in {"findOne", "find"} /\ pc'[p] \in {"save", "insertMany"} )
          => \A j \in 1..Len(data'[p]) :
                Matches(StoreOf(KindOf(op[p])), data'[p][j].event.session_id,
                        data'[p][j].event.item_id, now[p] - RATE_LIMIT_WINDOW) = {}
      ]_vars

(* C5 witness: a batch accepts an event at t = 61 s whose key has an event
   accepted at t = 0, the cache entry of the key being stale or evicted. *)
C5_Witness ==
    \E p \in Procs :
        /\ pc[p] = "insertMany" /\ now[p] = 61000
        /\ \E d \in StoreOf(KindOf(op[p])) : SameKey(d, data[p][1].event) /\ d.at = 0

(* C6: the steps of a single submission that ends rejected (rate-limited or
   duplicate) leave both caches and both stores as they are: so does the step
   that sends the existence query and so does the step that rejects. *)
C6_RejectionChangesNothing ==
    [][ \A p \in Procs :
          ( /\ pc'[p] # pc[p]
            /\ IsSingle(op'[p])
            /\ \/ pc'[p] = "findOne"
               \/ result'[p].status \in {"rate_limited", "duplicate"} )
          => UNCHANGED << impressionCache, clickCache, impressions, clicks >>
      ]_vars

(* C6 witness: a single submission ends rejected as a duplicate. *)
C6_Witness ==
    \E p \in Procs :
        pc[p] = "done" /\ IsSingle(op[p]) /\ result[p].status = "duplicate"

(* C7, as claimed: a batch submission of n events returns a list of length n. *)
C7_BatchResultAligned ==
    \A p \in Procs :
        (Accepted(p) /\ IsBatch(op[p])) => Len(result[p].value) = Len(input[p])

(* C7, amended: a batch submission returns the accepted events only, in input
   order: a list of at most n elements, each made of an input event, the
   positions of the input events strictly increasing along the list. *)
C7_BatchReturnsAcceptedInOrder ==
    \A p \in Procs :
        (Accepted(p) /\ IsBatch(op[p])) =>
            LET v == result[p].value
            IN  /\ Len(v) <= Len(input[p])
                /\ \A j \in 1..Len(v) :
                      /\ v[j].idx \in 1..Len(input[p])
                      /\ SameKey(v[j].event, input[p][v[j].idx])
                      /\ j > 1 => v[j - 1].idx < v[j].idx

(* C7 witness: a batch of two events returns both. *)
C7_Witness ==
    \E p \in Procs :
        Accepted(p) /\ IsBatch(op[p]) /\ Len(result[p].value) = 2

(* C8: of the events of one batch with the same (session_id, item_id) at most
   one is accepted, and an accepted event is the earliest of its key in the
   input. *)
C8_IntraBatchDedup ==
    \A p \in Procs :
        (IsBatch(op[p]) /\ pc[p] \in {"insertMany", "done"}) =>
            LET v == IF pc[p] = "insertMany" THEN data[p] ELSE result[p].value
            IN  \A j \in 1..Len(v) :
                    /\ \A i \in 1..Len(v) : i # j => ~ SameKey(v[i].event, v[j].event)
                    /\ \A i \in 1..(v[j].idx - 1) :
                          ~ SameKey(input[p][i], input[p][v[j].idx])

(* C8 witness: a batch holding one key twice has its first event accepted. *)
C8_Witness ==
    \E p \in Procs :
        /\ Accepted(p) /\ IsBatch(op[p])
        /\ Len(input[p]) = 2 /\ SameKey(input[p][1], input[p][2])
        /\ Len(result[p].value) = 1 /\ result[p].value[1].idx = 1

(* C9: when a batch submission runs concurrently with a batch or a single
   submission of the same kind, a key they share is accepted and persisted by
   at most one of them. *)
C9_BatchDecidedAtomically ==
    \A p \in Procs :
        Accepted(p) =>
            \A j \in 1..Len(result[p].value) :
                ~ \E r \in rivals[p] :
                     /\ IsBatch(op[p]) \/ IsBatch(r.op)
                     /\ SameKey(r, result[p].value[j].event)

(* C10: a store failure during a batch submission does not fail the call: the
   batch submission still returns a result. *)
C10_BatchFailureIsPartial ==
    \A p \in Procs :
        (pc[p] = "done" /\ IsBatch(op[p])) => result[p].status # "store_error"

(* C11: when the store fails during a single submission, on the existence
   check or on the append, the call ends with the store's error: it is reported
   neither as an acceptance nor as a rate-limit or duplicate rejection. *)
C11_SingleStoreFailurePropagates ==
    [][ \A p \in Procs :
          ( /\ IsSingle(op[p])
            /\ pc[p] \in {"findOne", "save"}
            /\ pc'[p] # pc[p]
            /\ failures' # failures )
          => /\ pc'[p] = "done"
             /\ result'[p].status = "store_error"
      ]_vars

(* C11 witness: a single submission has ended with the store's error on its
   append: the cache holds its key, set before the save, and the store holds no
   event of the key. *)
C11_Witness ==
    \E p \in Procs :
        /\ pc[p] = "done" /\ IsSingle(op[p]) /\ result[p].status = "store_error"
        /\ CacheKey(input[p][1]) \in DOMAIN CacheOf(KindOf(op[p]))
        /\ ~ \E d \in StoreOf(KindOf(op[p])) : SameKey(d, input[p][1])

(* C13: the steps of an impression submission (single or batch, accepted or
   rejected) leave the click cache and the click collection as they are, and
   the steps of a click submission leave the impression cache and the
   impression collection as they are; the outcome of a click submission
   depends on the click cache and the click collection only. *)
C13_KindsNotConflated ==
    [][ \A p \in Procs :
          ( pc'[p] # pc[p] /\ pc[p] # "done" )
          => IF KindOf(op'[p]) = "impression"
             THEN UNCHANGED << clickCache, clicks >>
             ELSE UNCHANGED << impressionCache, impressions >>
      ]_vars

(* C13 witness: a click of a key is accepted at the very instant an impression
   of the key was accepted, inside the impression cooldown. *)
C13_Witness ==
    \E p \in Procs :
        /\ Accepted(p) /\ op[p] = "trackClick"
        /\ \E d \in impressions : SameKey(d, input[p][1]) /\ d.at = now[p]
        /\ \E d \in clicks : SameKey(d, input[p][1]) /\ d.at = now[p]

(* an event of the kind and key of dto was accepted at most `cooldown` before t *)
AcceptedWithinCooldown(kind, dto, t) ==
    \E d \in StoreOf(kind) :
        SameKey(d, dto) /\ d.at <= t /\ t - d.at < Cooldown(kind)

(* C14: once an event of a key is accepted, every single resubmission of the
   key within the cooldown of the kind is rejected as tracked too recently, the
   same rejection each time, whatever submissions and cleanup ticks came in
   between; a batch never accepts such a key either. *)
C14_SameRejectionWithinCooldown ==
    [][ \A p \in Procs :
          /\ ( /\ pc[p] = "idle" /\ pc'[p] # "idle"
               /\ IsSingle(op'[p])
               /\ AcceptedWithinCooldown(KindOf(op'[p]), input'[p][1], clock) )
             => result'[p].status = "rate_limited"
          /\ ( pc[p] = "find" /\ pc'[p] # "find" )
             => \A j \in 1..Len(data'[p]) :
                   ~ AcceptedWithinCooldown(KindOf(op[p]), data'[p][j].event, now[p])
      ]_vars

(* C14 witness: a resubmission is rejected as tracked too recently 10 s after
   the acceptance, the cache having been cleaned in between or not. *)
C14_Witness ==
    \E p \in Procs :
        /\ pc[p] = "done" /\ op[p] = "trackImpression"
        /\ result[p].status = "rate_limited" /\ now[p] = 10000
        /\ \E d \in impressions : SameKey(d, input[p][1]) /\ d.at = 0

(* C12: a submission carrying a timestamp that does not parse to a valid
   instant is rejected before any store call and without a change to the Hot
   Cache: no call with such an event ever has an existence query or a write in
   flight, and no event data with an invalid timestamp is built for the
   store. *)
C12_InvalidTimestampRejectedFirst ==
    \A p \in Procs :
        (\E i \in 1..Len(input[p]) : HasInvalidTimestamp(input[p][i]))
        => /\ pc[p] \notin {"findOne", "save", "find", "insertMany"}
           /\ Validates(data[p])

(* the deletion of slot p's purge in the collection of `kind` runs in this step *)
DeletionRuns(p, kind) ==
    /\ pc[p] = "deleteMany"
    /\ kind \in data[p].pending
    /\ failures' = failures
    /\ \/ pc'[p] = "deleteMany" /\ kind \notin data'[p].pending
       \/ pc'[p] = "done" /\ data[p].pending = {kind}

(* C15: after deleteOldImpressions(cutoff) (resp. deleteOldClicks) has run, no
   stored event of that kind has timestamp < cutoff, every event of the kind
   with timestamp >= cutoff is still stored as it was, nothing was added, and
   the events of the other kind are untouched. *)
C15_DeleteOlderThanCutoff ==
    [][ \A p \in Procs : \A kind \in {"impression", "click"} :
          DeletionRuns(p, kind) =>
             /\ \A e \in StoreOf(kind)' : ~ Before(e.timestamp, data[p].cutoffDate)
             /\ \A e \in StoreOf(kind) :
                   ~ Before(e.timestamp, data[p].cutoffDate) => e \in StoreOf(kind)'
             /\ StoreOf(kind)' \subseteq StoreOf(kind)
             /\ IF kind = "impression" THEN UNCHANGED clicks ELSE UNCHANGED impressions
      ]_vars

(* C15 witness: a purge with the default retention has deleted impressions and
   left the impression stored exactly at its cutoff. *)
C15_Witness ==
    \E p \in Procs :
        /\ pc[p] = "done" /\ op[p] = "cleanOldEvents" /\ result[p].status = "ok"
        /\ input[p] = << >>
        /\ result[p].value.impressions > 0
        /\ \E e \in impressions :
              e.timestamp = CutoffDate(now[p], DATA_RETENTION_DAYS)

(* C16: the purge of the stored events never raises to its caller: when the
   store is unavailable for a deletion, cleanOldEvents does not end with the
   store's error. *)
C16_PurgeNeverRaises ==
    \A p \in Procs :
        (pc[p] = "done" /\ op[p] = "cleanOldEvents") => result[p].status # "store_error"

(* C17: no submission blocks indefinitely: a single or batch submission that
   waits for the store eventually completes, also when the store never
   answers. *)
C17_NoSubmissionBlocks ==
    \A p \in Procs :
        (pc[p] \in {"findOne", "save", "find", "insertMany"}) ~> (pc[p] = "done")

(* C18: the cache eviction is idempotent (cleaning a cleaned cache changes
   nothing) and, with the default configuration, however cleanup ticks
   interleave with submissions, no key has two events of one kind accepted
   less than the rate-limit window apart (the cooldowns are shorter than the
   window). *)
C18_SweeperSafeWithIngestion ==
    /\ \A kind \in {"impression", "click"} :
          cleanCache(cleanCache(CacheOf(kind), clock), clock) = cleanCache(CacheOf(kind), clock)
    /\ \A kind \in {"impression", "click"} :
          \A e1, e2 \in StoreOf(kind) :
             (e1 # e2 /\ SameKey(e1, e2) /\ e1.at <= e2.at)
             => e2.at - e1.at >= RATE_LIMIT_WINDOW

(* the events of a kind that the filters of slot p's query select: those of
   its item (or of its user) whose timestamp lies in its time range *)
Filtered(p, kind) ==
    { e \in StoreOf(kind) :
        /\ op[p] = "getItemAnalytics" => e.item_id = input[p][1].item_id
        /\ op[p] = "getUserAnalytics" => e.user_id = input[p][1].user_id
        /\ input[p][1].startDate # <<>> => ~ Before(e.timestamp, input[p][1].startDate[1])
        /\ input[p][1].endDate # <<>> => ~ Before(input[p][1].endDate[1], e.timestamp) }

(* C19: getItemAnalytics and getUserAnalytics count the filtered impressions
   and the filtered clicks, and report clickThroughRate = clicks / impressions
   * 100 of the counts they report, and 0 when impressions = 0. *)
C19_ClickThroughRate ==
    [][ \A p \in Procs :
          /\ \A kind \in {"impression", "click"} :
                ( /\ pc[p] = "count" /\ kind \in data[p].pending
                  /\ pc'[p] # "done" /\ kind \notin data'[p].pending )
                => data'[p].count[kind] = Cardinality(Filtered(p, kind))
          /\ ( /\ pc[p] \in {"distinctSessions", "clickedItems"}
               /\ pc'[p] = "done" /\ result'[p].status = "ok" )
             => LET v == result'[p].value
                IN  /\ v.impressions = data[p].count.impression
                    /\ v.clicks = data[p].count.click
                    /\ IF v.impressions = 0
                       THEN v.clickThroughRate.num = 0
                       ELSE v.clickThroughRate.num * v.impressions
                              = v.clicks * 100 * v.clickThroughRate.den
      ]_vars

(* C19 witness: item A has 10 impressions and 2 clicks and getItemAnalytics
   reports a click-through rate of 20. *)
C19_Witness ==
    \E p \in Procs :
        /\ pc[p] = "done" /\ op[p] = "getItemAnalytics" /\ result[p].status = "ok"
        /\ result[p].value.impressions = 10 /\ result[p].value.clicks = 2
        /\ result[p].value.clickThroughRate.num = 20 * result[p].value.clickThroughRate.den

(* ascending order of the item ids *)
ItemRank(item) == CASE item = "A" -> 1 [] item = "B" -> 2 [] OTHER -> 3

(* C20: getTrendingItems returns at most `limit` items, ordered by descending
   impression count, items with equal counts in ascending order of item_id. *)
C20_TrendingOrder ==
    \A p \in Procs :
        (pc[p] = "done" /\ op[p] = "getTrendingItems" /\ result[p].status = "ok")
        => LET v == result[p].value
           IN  /\ Len(v) <= input[p][1].limit
               /\ \A j \in 1..(Len(v) - 1) :
                     \/ v[j].impressions > v[j + 1].impressions
                     \/ /\ v[j].impressions = v[j + 1].impressions
                        /\ ItemRank(v[j].itemId) < ItemRank(v[j + 1].itemId)

(* the lists the store may answer the pending trending query of slot p with *)
TrendingAnswers(p) ==
    { LimitStage(s, input[p][1].limit) :
        s \in SortStage(GroupStage(MatchStage(impressions,
                 buildDateFilter(input[p][1].startDate, input[p][1].endDate)))) }

(* C21: trending is deterministic: the list a getTrendingItems call returns is
   fixed by its limit, its time range and the stored impressions, so two calls
   with the same arguments on unchanged data return the identical list, also
   when items have equal impression counts. *)
C21_TrendingDeterministic ==
    \A p \in Procs :
        pc[p] = "aggregate" =>
            \A l1, l2 \in TrendingAnswers(p) : l1 = l2

(* C22: getUserAnalytics reports as viewedItems the number of distinct items
   the user has impressions on, and as clickedItems the number of distinct
   items the user has clicks on, each within the time range. *)
C22_UserItemCounts ==
    [][ \A p \in Procs :
          /\ ( pc[p] = "viewedItems" /\ pc'[p] = "clickedItems" )
             => data'[p].distinct
                  = Cardinality({ e.item_id : e \in Filtered(p, "impression") })
          /\ ( pc[p] = "clickedItems" /\ pc'[p] = "done" /\ result'[p].status = "ok" )
             => /\ result'[p].value.viewedItems = data[p].distinct
                /\ result'[p].value.clickedItems
                     = Cardinality({ e.item_id : e \in Filtered(p, "click") })
      ]_vars

(* the aggregation was called with a start or end date that is no date *)
HasInvalidDate(filters) ==
    \/ filters.startDate = << InvalidInstant >>
    \/ filters.endDate = << InvalidInstant >>

(* C23: an aggregation query with a bad parameter (here an unparsable
   startDate) is not answered with the bad parameter ignored: it never
   returns a result. *)
C23_BadParametersNotAnswered ==
    \A p \in Procs :
        ( /\ pc[p] = "done" /\ IsAggregation(op[p])
          /\ HasInvalidDate(input[p][1]) )
        => result[p].status # "ok"

(* C24: when the cache of the kind holds the key of a single submission with
   now - cached < cooldown, the submission is rejected as tracked too recently
   in the step it arrives in: no existence query and no write is sent, and the
   caches and the collections stay as they are. *)
C24_CheapPath ==
    [][ \A p \in Procs :
          ( /\ pc[p] = "idle" /\ pc'[p] # "idle"
            /\ IsSingle(op'[p])
            /\ LET key == CacheKey(input'[p][1])
                   cache == CacheOf(KindOf(op'[p]))
               IN  /\ key \in DOMAIN cache
                   /\ clock - cache[key] < Cooldown(KindOf(op'[p])) )
          => /\ pc'[p] = "done"
             /\ result'[p].status = "rate_limited"
             /\ UNCHANGED << impressionCache, clickCache, impressions, clicks >>
      ]_vars

(* C24 witness: a click is rejected as tracked too recently on the cache entry
   of its key alone. *)
C24_Witness ==
    \E p \in Procs :
        /\ pc[p] = "done" /\ op[p] = "trackClick"
        /\ result[p].status = "rate_limited"
        /\ CacheKey(input[p][1]) \in DOMAIN clickCache
        /\ now[p] - clickCache[CacheKey(input[p][1])] < CLICK_COOLDOWN

(* C25: an accepted single submission sets the cache entry of its key, in the
   cache of its kind, to its acceptance time (its `now`) and changes no other
   cache entry, and appends exactly one event to the collection of its kind,
   with its key and with the supplied timestamp or, when none is supplied, the
   current time; no other stored event changes, and the other kind's cache
   and collection are untouched. *)
C25_AcceptedSingleFrame ==
    [][ \A p \in Procs :
          LET kind == KindOf(op[p])
              dto == input[p][1]
              key == CacheKey(dto)
          IN  /\ ( pc[p] = "findOne" /\ pc'[p] = "save" )
                 => /\ key \in DOMAIN CacheOf(kind)' /\ CacheOf(kind)'[key] = now[p]
                    /\ DOMAIN CacheOf(kind)' = DOMAIN CacheOf(kind) \cup {key}
                    /\ \A k \in DOMAIN CacheOf(kind) \ {key} :
                          CacheOf(kind)'[k] = CacheOf(kind)[k]
                    /\ UNCHANGED << impressions, clicks >>
                    /\ IF kind = "impression" THEN UNCHANGED clickCache
                       ELSE UNCHANGED impressionCache
              /\ ( pc[p] = "save" /\ pc'[p] = "done" /\ result'[p].status = "ok" )
                 => /\ CacheOf(kind)[key] = now[p]
                    /\ UNCHANGED << impressionCache, clickCache >>
                    /\ StoreOf(kind) \subseteq StoreOf(kind)'
                    /\ Cardinality(StoreOf(kind)' \ StoreOf(kind)) = 1
                    /\ \A d \in StoreOf(kind)' \ StoreOf(kind) :
                          /\ SameKey(d, dto)
                          /\ dto.timestamp = "" => d.timestamp = clock
                          /\ dto.timestamp = "1969-12-31T23:58:20.000Z"
                                => d.timestamp = 0 - 100000
                    /\ IF kind = "impression" THEN UNCHANGED clicks
                       ELSE UNCHANGED impressions
      ]_vars

(* C25 witness: an impression with a supplied timestamp has been accepted at
   t = 10 s: the stored event carries the supplied instant and the cache entry
   of the key is 10 s. *)
C25_Witness ==
    \E p \in Procs :
        /\ Accepted(p) /\ op[p] = "trackImpression" /\ now[p] = 10000
        /\ input[p][1].timestamp = "1969-12-31T23:58:20.000Z"
        /\ impressionCache[CacheKey(input[p][1])] = 10000
        /\ \E d \in impressions :
              SameKey(d, input[p][1]) /\ d.at = 10000 /\ d.timestamp = 0 - 100000

(* C26: a batch of one event decides as a single submission does: from any
   state of the cache and the collection a call can start in alone, for either
   kind and any event, the batch call persists the event if and only if the
   single call does, and both leave the same cache and the same collection. *)
C26_BatchOfOneAsSingle ==
    (InFlight = {} /\ Settled) =>
        \A kind \in {"impression", "click"} : \A dto \in Dtos :
            BatchRun(kind, << dto >>, clock) = SingleRun(kind, dto, clock)

(* C26 witness: at t = 61 s the cache and the collection hold two keys, one
   accepted at t = 0 and one at t = 31 s: the single call and the batch of one
   both persist an event of the first key and both reject one of the second. *)
C26_Witness ==
    \E d1, d2 \in BatchDtos :
        /\ clock = 61000 /\ InFlight = {} /\ Settled
        /\ \E e \in impressions : SameKey(e, d1) /\ e.at = 0
        /\ \E e \in impressions : SameKey(e, d2) /\ e.at = 31000
        /\ SingleRun("impression", d1, clock).persisted
        /\ BatchRun("impression", << d1 >>, clock).persisted
        /\ ~ SingleRun("impression", d2, clock).persisted
        /\ ~ BatchRun("impression", << d2 >>, clock).persisted

(* C27: a batch submission writes at most once, after every event has been
   decided: the step that sends the write has decided all input events and has
   written nothing, the one write appends all accepted events together, and
   no other step of the call changes a collection; when no event is accepted
   the call returns the empty list without having sent a write. *)
C27_SingleBatchWrite ==
    [][ \A p \in Procs :
          ( IsBatch(op'[p]) /\ pc'[p] # pc[p] /\ pc[p] # "done" )
          => LET kind == KindOf(op[p])
             IN  /\ pc[p] # "insertMany" => UNCHANGED << impressions, clicks >>
                 /\ pc'[p] = "insertMany"
                       => /\ pc[p] = "find"
                          /\ Len(data'[p]) > 0
                          /\ \A j \in 1..Len(data'[p]) : data'[p][j].idx \in 1..Len(input[p])
                 /\ ( pc[p] = "find" /\ pc'[p] = "done" /\ failures' = failures )
                       => result'[p] = [status |-> "ok", value |-> <<>>]
                 /\ ( pc[p] = "insertMany" /\ result'[p].status = "ok" )
                       => /\ pc'[p] = "done"
                          /\ result'[p].value = data[p]
                          /\ StoreOf(kind) \subseteq StoreOf(kind)'
                          /\ Cardinality(StoreOf(kind)' \ StoreOf(kind)) = Len(data[p])
                          /\ \A j \in 1..Len(data[p]) :
                                \E d \in StoreOf(kind)' \ StoreOf(kind) :
                                    SameKey(d, data[p][j].event)
      ]_vars

(* C27 witness: a batch of two keys at t = 31 s has had both events appended
   by its one write. *)
C27_Witness ==
    \E p \in Procs :
        /\ Accepted(p) /\ op[p] = "trackImpressionsBatch" /\ now[p] = 31000
        /\ Len(result[p].value) = 2
        /\ \A j \in 1..2 :
              \E d \in impressions : SameKey(d, result[p].value[j].event) /\ d.at = 31000

(* C28: a batch submission of no event returns the empty list in the step it
   arrives in: no existence query and no write is sent, and the caches and the
   collections stay as they are. *)
C28_EmptyBatch ==
    [][ \A p \in Procs :
          ( /\ pc[p] = "idle" /\ pc'[p] # "idle"
            /\ IsBatch(op'[p])
            /\ Len(input'[p]) = 0 )
          => /\ pc'[p] = "done"
             /\ result'[p] = [status |-> "ok", value |-> <<>>]
             /\ UNCHANGED << impressionCache, clickCache, impressions, clicks >>
      ]_vars

(* C28 witness: an empty click batch has returned the empty list while the
   click cache holds an entry. *)
C28_Witness ==
    \E p \in Procs :
        /\ pc[p] = "done" /\ op[p] = "trackClicksBatch"
        /\ input[p] = <<>>
        /\ result[p] = [status |-> "ok", value |-> <<>>]
        /\ DOMAIN clickCache # {}

(* what an eviction run at time t makes of a cache: `after` has no entry older
   than t - RATE_LIMIT_WINDOW, has every entry of `before` that is not older,
   with its value, and has nothing else *)
Evicted(before, after, t) ==
    /\ \A k \in DOMAIN after : after[k] >= t - RATE_LIMIT_WINDOW
    /\ \A k \in DOMAIN before :
          before[k] >= t - RATE_LIMIT_WINDOW => (k \in DOMAIN after /\ after[k] = before[k])
    /\ DOMAIN after \subseteq DOMAIN before

(* C29: an eviction run at time now leaves in each cache no entry older than
   now - RATE_LIMIT_WINDOW and every entry at or after that cutoff, with its
   value unchanged, and does not touch the collections: this is what cleanCache
   computes of every cache, and what every firing of the cleanup interval
   does. *)
C29_CleanCachePostcondition ==
    [][ /\ \A kind \in {"impression", "click"} :
              Evicted(CacheOf(kind), cleanCache(CacheOf(kind), clock), clock)
        /\ ( /\ pc' = pc /\ clock' = clock
             /\ << impressionCache, clickCache >>' # << impressionCache, clickCache >> )
           => /\ Evicted(impressionCache, impressionCache', clock)
              /\ Evicted(clickCache, clickCache', clock)
              /\ UNCHANGED << impressions, clicks >>
      ]_vars

(* C29 witness: at t = 61 s the cleanup has evicted the entry of a key accepted
   at t = 0 and kept the entry of a key accepted at t = 31 s. *)
C29_Witness ==
    \E d1, d2 \in BatchDtos :
        /\ clock = 61000
        /\ \E e \in impressions : SameKey(e, d1) /\ e.at = 0
        /\ CacheKey(d1) \notin DOMAIN impressionCache
        /\ CacheKey(d2) \in DOMAIN impressionCache
        /\ impressionCache[CacheKey(d2)] = 31000

(* the events of a collection older than the cutoff *)
OlderThan(store, cutoffDate) == { e \in store : Before(e.timestamp, cutoffDate) }

(* C30: cleanOldEvents takes as cutoff the current instant minus the retention
   period (the days it is given, DATA_RETENTION_DAYS when it is given none),
   deletes from the impressions and from the clicks every event older than the
   cutoff, and returns for each kind the number of events it deleted: the
   number of events of the kind that were older than the cutoff when it was
   called on the collection. *)
C30_PurgeCounts ==
    [][ \A p \in Procs :
          /\ ( pc[p] = "idle" /\ op'[p] = "cleanOldEvents" )
             => data'[p].cutoffDate
                  = [day |-> Today - (IF input'[p] = <<>> \/ input'[p][1] = 0
                                      THEN DATA_RETENTION_DAYS
                                      ELSE input'[p][1]),
                     ms |-> clock]
          /\ \A kind \in {"impression", "click"} :
                DeletionRuns(p, kind) =>
                  LET old == OlderThan(StoreOf(kind), data[p].cutoffDate)
                      other == IF kind = "impression" THEN "click" ELSE "impression"
                  IN  /\ StoreOf(kind)' = StoreOf(kind) \ old
                      /\ pc'[p] = "deleteMany"
                            => /\ data'[p].deletedCount[kind] = Cardinality(old)
                               /\ data'[p].deletedCount[other] = data[p].deletedCount[other]
                      /\ pc'[p] = "done"
                            => /\ result'[p].status = "ok"
                               /\ result'[p].value
                                    = IF kind = "impression"
                                      THEN [impressions |-> Cardinality(old),
                                            clicks |-> data[p].deletedCount.click]
                                      ELSE [impressions |-> data[p].deletedCount.impression,
                                            clicks |-> Cardinality(old)]
      ]_vars

(* C30 witness: a purge keeping 15 days has returned 10 deleted impressions
   and 1 deleted click, and neither collection holds an event older than its
   cutoff. *)
C30_Witness ==
    \E p \in Procs :
        /\ pc[p] = "done" /\ op[p] = "cleanOldEvents" /\ input[p] = << 15 >>
        /\ result[p] = [status |-> "ok", value |-> [impressions |-> 10, clicks |-> 1]]
        /\ OlderThan(impressions, Instant(Today - 15, now[p])) = {}
        /\ OlderThan(clicks, Instant(Today - 15, now[p])) = {}
        /\ impressions # {} /\ clicks # {}

(* C31: the read operations (getItemAnalytics, getUserAnalytics,
   getTrendingItems, getTimeSeriesData) are read-only: no step of theirs, from
   the call to the return or the failure, changes a cache or a collection,
   whatever purge runs beside them; so what a submission or a purge finds is
   what it would find without them. *)
C31_AggregationsReadOnly ==
    [][ \A p \in Procs :
          ( pc'[p] # pc[p] /\ (IsRead(op[p]) \/ IsRead(op'[p])) )
          => UNCHANGED << impressionCache, clickCache, impressions, clicks >>
      ]_vars

(* C31 witness: a time series has been returned while a purge that has deleted
   impressions is still running beside it. *)
C31_Witness ==
    \E p, q \in Procs :
        /\ pc[p] = "done" /\ op[p] = "getTimeSeriesData" /\ result[p].status = "ok"
        /\ Len(result[p].value.impressions) > 1
        /\ pc[q] = "deleteMany" /\ "impression" \notin data[q].pending

(* the pair of dto is known to the service: an event of the pair is stored in
   the collection of the kind, or a call other than p is in flight with an
   event of the pair *)
PairKnown(p, kind, dto) ==
    \/ \E d \in StoreOf(kind) : SameKey(d, dto)
    \/ \E q \in InFlight \ {p} :
          KindOf(op[q]) = kind /\ \E i \in 1..Len(input[q]) : SameKey(input[q][i], dto)

(* C32: different (session_id, item_id) pairs share no dedup state, also when
   the identifiers contain "_": a single submission is rejected, and an event
   of a batch is left out, only when its own pair is known to the service (or
   comes earlier in the same batch), never because of an event of another
   pair. *)
C32_PairsShareNoState ==
    \A p \in Procs :
        /\ ( /\ pc[p] = "done" /\ IsSingle(op[p])
             /\ result[p].status \in {"rate_limited", "duplicate"} )
           => PairKnown(p, KindOf(op[p]), input[p][1])
        /\ ( Accepted(p) /\ IsBatch(op[p]) )
           => \A i \in 1..Len(input[p]) :
                 \/ \E j \in 1..Len(result[p].value) : result[p].value[j].idx = i
                 \/ \E h \in 1..(i - 1) : SameKey(input[p][h], input[p][i])
                 \/ \E d \in StoreOf(KindOf(op[p])) :
                       SameKey(d, input[p][i]) /\ d.at # now[p]
                 \/ \E q \in InFlight \ {p} :
                       \E h \in 1..Len(input[q]) : SameKey(input[q][h], input[p][i])

(* C33: a cache entry of a key stands for an event of the key persisted at the
   cached time: when a single or batch submission has ended with the store's
   error, no cache entry records it, that is, every entry of one of its keys
   set at its `now` has an event of that key persisted at that time. *)
C33_CacheEntryMeansPersisted ==
    \A p \in Procs :
        ( pc[p] = "done" /\ result[p].status = "store_error" )
        => \A i \in 1..Len(input[p]) :
              LET cache == CacheOf(KindOf(op[p]))
                  key == CacheKey(input[p][i])
              IN  ( key \in DOMAIN cache /\ cache[key] = now[p] )
                  => \E d \in StoreOf(KindOf(op[p])) :
                        SameKey(d, input[p][i]) /\ d.at = now[p]

(* C34: the decisions depend on when the earlier events of the key were
   accepted, not on the timestamp the client supplied with them: after an event
   stored with a supplied timestamp was accepted, no later event of its kind
   and key is accepted less than RATE_LIMIT_WINDOW after that acceptance. *)
C34_ClientTimestampIgnored ==
    \A kind \in {"impression", "click"} :
        \A e1, e2 \in StoreOf(kind) :
            ( SameKey(e1, e2) /\ e1.timestamp # e1.at /\ e1.at < e2.at )
            => e2.at - e1.at >= RATE_LIMIT_WINDOW

(* C35: under every configuration of cooldown and rate-limit window, a run of
   the cache cleanup leaves the outcome of every submission as it was: a
   single submission of either kind made right after the cleanup is persisted
   if and only if the same submission made right before it would have been. *)
C35_EvictionKeepsOutcomes ==
    [][ ( /\ pc' = pc
          /\ impressionCache' # impressionCache \/ clickCache' # clickCache )
        => \A kind \in {"impression", "click"} : \A dto \in Dtos :
              SingleRun(kind, dto, clock)'.persisted
                  = SingleRun(kind, dto, clock).persisted ]_vars

(* C36: the edges of the two checks of a single submission.  A submission is
   rejected as rate-limited only when the key's cache entry is less than the
   cooldown old, so one made exactly the cooldown after the cached acceptance
   passes the cache check; it is rejected as a duplicate only when a stored
   event of the key has timestamp >= now - RATE_LIMIT_WINDOW, and it is never
   accepted while an event stored before it has such a timestamp, so exactly
   RATE_LIMIT_WINDOW after the stored timestamp it is still rejected and one
   millisecond later the stored event no longer counts. *)
C36_CheckBoundaries ==
    /\ \A p \in Procs :
          ( pc[p] = "done" /\ op[p] \in {"trackImpression", "trackClick"} )
          => LET kind == KindOf(op[p])
                 dto == input[p][1]
                 key == CacheKey(dto)
                 cache == CacheOf(kind)
                 before == { e \in StoreOf(kind) : SameKey(e, dto) /\ e.at < now[p] }
             IN  /\ result[p].status = "rate_limited"
                       => /\ key \in DOMAIN cache
                          /\ now[p] - cache[key] < Cooldown(kind)
                 /\ result[p].status = "duplicate"
                       => \E e \in StoreOf(kind) :
                             /\ SameKey(e, dto)
                             /\ e.timestamp >= now[p] - RATE_LIMIT_WINDOW
                 /\ result[p].status \in {"ok", "validation_error"}
                       => \A e \in before : e.timestamp < now[p] - RATE_LIMIT_WINDOW
                 /\ result[p].status \in {"rate_limited", "duplicate", "ok",
                                          "validation_error"}
    /\ \A kind \in {"impression", "click"} :
          /\ \A key \in DOMAIN CacheOf(kind) :
                LET last == CacheOf(kind)[key]
                IN  /\ TooRecent(CacheOf(kind), key, last + Cooldown(kind) - 1,
                                 Cooldown(kind))
                    /\ ~ TooRecent(CacheOf(kind), key, last + Cooldown(kind),
                                   Cooldown(kind))
          /\ \A e \in StoreOf(kind) :
                e.timestamp # InvalidDate
                => LET dto == [session_id |-> e.session_id, item_id |-> e.item_id,
                               timestamp |-> ""]
                   IN  /\ e \in ExistingOne(StoreOf(kind), dto,
                                            e.timestamp + RATE_LIMIT_WINDOW)
                       /\ e \notin ExistingOne(StoreOf(kind), dto,
                                               e.timestamp + RATE_LIMIT_WINDOW + 1)

(* C36 witness: an impression accepted at t = 0 with the server's time, its
   cache entry still there, and the same key submitted again exactly
   RATE_LIMIT_WINDOW later: the cache check is passed and the call ends as a
   duplicate. *)
C36_Witness ==
    \E p \in Procs :
        /\ pc[p] = "done" /\ op[p] = "trackImpression"
        /\ now[p] = RATE_LIMIT_WINDOW
        /\ result[p].status = "duplicate"
        /\ CacheKey(input[p][1]) \in DOMAIN impressionCache
        /\ impressionCache[CacheKey(input[p][1])] = 0
        /\ \A e \in impressions :
              SameKey(e, input[p][1]) => e.at = 0 /\ e.timestamp = 0

(* C37: cleanOldEvents keeps the days its caller supplies, whatever the value:
   a call that is given daysToKeep, 0 included, takes as cutoff the current
   instant minus that many days, so cleanOldEvents(0) takes the current
   instant itself. *)
C37_SuppliedDaysKept ==
    [][ \A p \in Procs :
          ( pc[p] = "idle" /\ op'[p] = "cleanOldEvents" /\ input'[p] # <<>> )
          => data'[p].cutoffDate = Instant(Today - input'[p][1], clock)
      ]_vars

(* C38: the purge is all-or-nothing across the two kinds: when cleanOldEvents
   ends with the error of a failed deletion, the run has deleted no event of
   either kind, neither before the failure nor with it. *)
C38_PurgeAllOrNothing ==
    [][ \A p \in Procs :
          ( /\ op[p] = "cleanOldEvents" /\ pc[p] = "deleteMany"
            /\ pc'[p] = "done" /\ result'[p].status = "store_error" )
          => /\ UNCHANGED << impressions, clicks >>
             /\ data[p].deletedCount = [impression |-> 0, click |-> 0]
      ]_vars

====
